---- MODULE Spec2Model ----
(***************************************************************************)
(* Stock loan data pipeline (scrape_logic/scrape_ibkr_short_borrow.py):    *)
(* download -> process -> resample -> compile -> delete, as a state        *)
(* machine over the contents of data_upload/.                              *)
(***************************************************************************)
EXTENDS Integers, Sequences, FiniteSets, TLC

VARIABLES
  now,        \* wall clock in seconds (datetime.now()), never decreasing
  raw,        \* BASE_DIR/<timestamp>/: folder name -> downloaded .txt files
  compiled,   \* COMPILED_DIR/<stem>_processed.pkl: stem -> table
  resampled,  \* RESAMPLED_DIR/<timestamp>/: folder name -> compacted files, master
  archives,   \* the .tar.gz archives written by delete
  last,       \* the step that ran last, its inputs and its outcome
  history,    \* per stem, the snapshots process has merged so far, in order
  session,    \* the download run under way: its folder, the files to retrieve
  processing, \* the process runs under way: what each has read and merged
  resampling, \* the resample run under way: its folder, the files to write
  earnings_csv, \* DATA_UPLOAD_FOLDER/nasdaq_earnings_<date>.csv, and the calls made
  data_dir,   \* cfg.data_dir: per source, the raw data the converters read
  parquet_dir, \* cfg.parquet_dir: per source, the Parquet file written
  run_result  \* what the last MLPipeline.run was given and returned

pipeline_vars == <<now, raw, compiled, resampled, archives, last, history, session>>
worker_vars == <<processing, resampling>>
ml_vars == <<data_dir, parquet_dir, run_result>>
vars == <<pipeline_vars, worker_vars, earnings_csv, ml_vars>>

-----------------------------------------------------------------------------
(* Configuration *)

CHANGE_COLS == {"AVAILABLE", "FEERATE", "REBATERATE"}
SYMBOL_COL == "SYM"

\* pd.NA / NaN in a numeric column, pd.NA in a text column, no #BOF line
NaN == -1
NA == "<NA>"
NoBof == 0

\* The file stems the FTP server may publish (usa.txt, can.txt)
Sources == {"usa", "can", "USA"}

\* Bounds of the model: the last second of the clock, the data lines of a
\* file, the process runs a recorded history holds
MaxTime == 3
MaxLines == 2
MaxRuns == 3

Times == 1..MaxTime

-----------------------------------------------------------------------------
(* Text conversions over the strings of the model *)

\* str.strip()
Strip(s) ==
  CASE s = " a" -> "a"
    [] s = " A" -> "A"
    [] s = " "  -> ""
    [] OTHER    -> s

\* str.upper()
Upper(s) ==
  CASE s = "a"   -> "A"
    [] s = " a"  -> " A"
    [] s = "b"   -> "B"
    [] s = "na"  -> "NA"
    [] s = "usa" -> "USA"
    [] s = "can" -> "CAN"
    [] OTHER     -> s

\* pd.to_numeric(errors="coerce") of one cell, after the NA replacement
ToNumeric(s) ==
  CASE s = "1"   -> 1
    [] s = "1.0" -> 1
    [] s = "2"   -> 2
    [] s = "3"   -> 3
    [] OTHER     -> NaN

isna(v) == v = NaN

-----------------------------------------------------------------------------
(* Files and tables *)

\* A DataFrame: its column names and its rows in order
NoTable == [exists |-> FALSE, cols |-> {}, rows |-> <<>>]
Table(cols, rows) == [exists |-> TRUE, cols |-> cols, rows |-> rows]

\* A downloaded .txt file after the line classification of the parser:
\* the #BOF time, the #SYM| header's column names, the data lines (cells)
NoTxt == [exists |-> FALSE, bof |-> NoBof, header |-> <<>>, lines |-> <<>>]
Txt(bof, header, lines) ==
  [exists |-> TRUE, bof |-> bof, header |-> header, lines |-> lines]

NoFolder == [exists |-> FALSE, files |-> [s \in Sources |-> NoTxt]]

\* no download run under way; otherwise the snapshot_dir of the run, whether
\* it has listed the server, and the listed .txt files not yet retrieved
NoSession == [folder |-> 0, connected |-> FALSE, pending |-> {}]

NoResampled ==
  [exists |-> FALSE, files |-> [s \in Sources |-> NoTable], master |-> NoTable]

Range(seq) == {seq[i] : i \in 1..Len(seq)}
MapSeq(seq, F(_)) == [i \in 1..Len(seq) |-> F(seq[i])]

\* the orders glob may list the files of a set in
Orders(S) ==
  {o \in [1..Cardinality(S) -> S] : \A i, j \in 1..Cardinality(S) : o[i] = o[j] => i = j}

\* _timestamped_folders / _latest_timestamped_folder: 0 when there is none
_timestamped_folders(parent) == {t \in Times : parent[t].exists}
_latest_timestamped_folder(parent) ==
  IF _timestamped_folders(parent) = {} THEN 0
  ELSE CHOOSE t \in _timestamped_folders(parent) :
         \A u \in _timestamped_folders(parent) : u <= t

-----------------------------------------------------------------------------
(* STEP 2 - PROCESS: the parser *)

\* row = [c.strip() for c in line.split("|")], padded with "" and truncated
SplitRow(line, n) ==
  [i \in 1..n |-> IF i <= Len(line) THEN Strip(line[i]) ELSE ""]

ColIndex(columns, c) ==
  CHOOSE i \in 1..Len(columns) :
    columns[i] = c /\ \A j \in 1..Len(columns) : columns[j] = c => j <= i

\* parse_ibkr_txt_file: (DataFrame, bof) or (None, None)
ParseFailed == [ok |-> FALSE, df |-> NoTable, bof |-> NoBof]
parse_ibkr_txt_file(file, stem) ==
  IF file.header = <<>> \/ file.lines = <<>> THEN ParseFailed
  ELSE
    LET columns == file.header
        cols == Range(columns)
        frame == MapSeq(file.lines, LAMBDA line :
                   LET row == SplitRow(line, Len(columns))
                   IN [c \in cols |-> row[ColIndex(columns, c)]])
        \* Uppercase symbols, drop empties
        upper == IF SYMBOL_COL \in cols
                 THEN MapSeq(frame, LAMBDA r :
                        [r EXCEPT ![SYMBOL_COL] = Strip(Upper(@))])
                 ELSE frame
        kept == IF SYMBOL_COL \in cols
                THEN SelectSeq(upper, LAMBDA r : r[SYMBOL_COL] /= "")
                ELSE upper
        \* Replace placeholder strings with real NA
        replaced == MapSeq(kept, LAMBDA r :
                      [c \in cols |-> IF r[c] \in {"NA", ""} THEN NA ELSE r[c]])
        \* Coerce numeric columns
        coerced == MapSeq(replaced, LAMBDA r :
                     [c \in cols |->
                        IF c \in CHANGE_COLS THEN ToNumeric(r[c]) ELSE r[c]])
        \* Country metadata from filename
        country == MapSeq(coerced, LAMBDA r :
                     [c \in cols \cup {"COUNTRY"} |->
                        IF c = "COUNTRY" THEN Upper(stem) ELSE r[c]])
    IN [ok |-> TRUE, df |-> Table(cols \cup {"COUNTRY"}, country),
        bof |-> file.bof]

\* df["TIMESTAMP"] = bof_ts
WithTimestamp(df, ts) ==
  Table(df.cols \cup {"TIMESTAMP"},
        MapSeq(df.rows, LAMBDA r :
          [c \in df.cols \cup {"TIMESTAMP"} |->
             IF c = "TIMESTAMP" THEN ts ELSE r[c]]))

-----------------------------------------------------------------------------
(* STEP 2 - PROCESS: the change-tracking merge *)

\* prev_indexed.index and prev_indexed.loc[sym] (.iloc[-1] on duplicates)
PrevSymbols(prev_df) == {prev_df.rows[i][SYMBOL_COL] : i \in 1..Len(prev_df.rows)}
PrevRow(prev_df, sym) ==
  LET hits == {i \in 1..Len(prev_df.rows) : prev_df.rows[i][SYMBOL_COL] = sym}
  IN prev_df.rows[CHOOSE i \in hits : \A j \in hits : j <= i]

\* (variant: the test without the null check; NaN != x is true in pandas)
ColChangedNaive(nv, ov) == isna(nv) \/ isna(ov) \/ nv /= ov

\* the null-aware test on one column
ColChanged(nv, ov) ==
  IF isna(nv) /\ isna(ov) THEN FALSE
  ELSE isna(nv) \/ isna(ov) \/ nv /= ov

\* (variant: only FEERATE is compared)
RowChangedFeeOnly(row, prev_row, compare_cols) ==
  \E col \in compare_cols \cap {"FEERATE"} : ColChanged(row[col], prev_row[col])

RowChanged(row, prev_row, compare_cols) ==
  \E col \in compare_cols : ColChanged(row[col], prev_row[col])

\* (variant: every row is stamped with the new timestamp)
MergedTimestampStampAll(prev_df, row, compare_cols, new_timestamp) == new_timestamp

\* the TIMESTAMP the merge gives one row of new_df
MergedTimestamp(prev_df, row, compare_cols, new_timestamp) ==
  IF row[SYMBOL_COL] \notin PrevSymbols(prev_df) THEN new_timestamp
  ELSE LET prev_row == PrevRow(prev_df, row[SYMBOL_COL])
       IN IF RowChanged(row, prev_row, compare_cols) THEN new_timestamp
          ELSE IF "TIMESTAMP" \in prev_df.cols THEN prev_row["TIMESTAMP"]
          ELSE new_timestamp

\* (variant: the rows of the symbols missing from new_df are carried over)
MergeKeepingAbsent(prev_df, new_df, new_timestamp) ==
  LET compare_cols == (CHANGE_COLS \cap new_df.cols) \cap prev_df.cols
      gone == SelectSeq(prev_df.rows, LAMBDA r :
                \A i \in 1..Len(new_df.rows) :
                  new_df.rows[i][SYMBOL_COL] /= r[SYMBOL_COL])
  IN Table(new_df.cols \cup {"TIMESTAMP"},
       MapSeq(new_df.rows, LAMBDA row :
         [c \in new_df.cols \cup {"TIMESTAMP"} |->
            IF c = "TIMESTAMP"
            THEN MergedTimestamp(prev_df, row, compare_cols, new_timestamp)
            ELSE row[c]]) \o gone)

\* (variant: without the fallback on an empty compare_cols)
MergeWithoutFallback(prev_df, new_df, new_timestamp) ==
  IF SYMBOL_COL \notin prev_df.cols \/ SYMBOL_COL \notin new_df.cols THEN new_df
  ELSE
    LET compare_cols == (CHANGE_COLS \cap new_df.cols) \cap prev_df.cols
    IN Table(new_df.cols \cup {"TIMESTAMP"},
         MapSeq(new_df.rows, LAMBDA row :
           [c \in new_df.cols \cup {"TIMESTAMP"} |->
              IF c = "TIMESTAMP"
              THEN MergedTimestamp(prev_df, row, compare_cols, new_timestamp)
              ELSE row[c]]))

_merge_with_timestamp_tracking(prev_df, new_df, new_timestamp) ==
  IF SYMBOL_COL \notin prev_df.cols \/ SYMBOL_COL \notin new_df.cols THEN new_df
  ELSE
    LET compare_cols == (CHANGE_COLS \cap new_df.cols) \cap prev_df.cols
    IN IF compare_cols = {} THEN new_df
       ELSE Table(new_df.cols \cup {"TIMESTAMP"},
              MapSeq(new_df.rows, LAMBDA row :
                [c \in new_df.cols \cup {"TIMESTAMP"} |->
                   IF c = "TIMESTAMP"
                   THEN MergedTimestamp(prev_df, row, compare_cols, new_timestamp)
                   ELSE row[c]]))

-----------------------------------------------------------------------------
(* The step that ran last: its outcome, the folder it read or wrote, and   *)
(* what it found there (prev: COMPILED_DIR as process found it; master:    *)
(* the master.pkl.gz compile found in the folder; order: the order glob    *)
(* listed the folder's files in).                                         *)

NoCompiled == [s \in Sources |-> NoTable]
Step(op, outcome, folder) ==
  [op |-> op, outcome |-> outcome, folder |-> folder,
   prev |-> NoCompiled, master |-> NoTable, order |-> <<>>]

\* The exit status of the command line: main calls the step and drops what
\* it returns; the steps return on a missing input after logging an error,
\* so only an exception that leaves the step gives a status other than 0.
exit_status(step) == IF step.outcome = "raised" THEN 1 ELSE 0

-----------------------------------------------------------------------------
(* STEP 1 - DOWNLOAD *)

\* The server publishes the files got (NoTxt: no such file); a failed
\* connection leaves the new folder as mkdir made it.  A retrieval that fails
\* leaves the file it opened, truncated: one of the files of feed.
\* A download takes at least a second, so its folder is a new one.
action_download(stems, feed, horizon) ==
  \E t \in (now + 1)..horizon :
    /\ now' = t
    /\ UNCHANGED <<compiled, resampled, archives, history, session, earnings_csv, ml_vars, worker_vars>>
    /\ \/ /\ raw' = [raw EXCEPT ![t] = [exists |-> TRUE, files |-> @.files]]
          /\ last' = Step("download", "ftp_error", t)
       \/ \E got \in [stems -> feed \cup {NoTxt}] :
            /\ raw' = [raw EXCEPT ![t] =
                 [exists |-> TRUE,
                  files |-> [s \in Sources |->
                    IF s \in stems /\ got[s].exists THEN got[s] ELSE @.files[s]]]]
            /\ last' = Step("download", "complete", t)

\* The same run step by step, for the runs of other steps that fall
\* between: the folder is made under its final name, then the connection
\* is opened and the server listed, then the files are retrieved one by
\* one, then the connection is closed and the run returns.
action_download_mkdir(horizon) ==
  /\ session = NoSession
  /\ \E t \in (now + 1)..horizon :
       /\ now' = t
       /\ raw' = [raw EXCEPT ![t] = [exists |-> TRUE, files |-> @.files]]
       /\ session' = [folder |-> t, connected |-> FALSE, pending |-> {}]
  /\ UNCHANGED <<compiled, resampled, archives, last, history, earnings_csv, ml_vars, worker_vars>>

\* ftplib.FTP, login, _scan_ftp_recursive: the .txt files listed, or an
\* error that ends the run
action_download_connect(stems) ==
  /\ session.folder /= 0
  /\ ~session.connected
  /\ \/ /\ session' = [session EXCEPT !.connected = TRUE, !.pending = stems]
        /\ last' = last
     \/ /\ session' = NoSession
        /\ last' = Step("download", "ftp_error", session.folder)
  /\ UNCHANGED <<now, raw, compiled, resampled, archives, history, earnings_csv, ml_vars, worker_vars>>

\* open(local_path, "wb") and RETR: without the folder the open fails, the
\* error is counted (OSError is one of ftplib.all_errors) and the loop goes on
action_download_retr(feed) ==
  /\ session.connected
  /\ \E s \in session.pending :
       /\ session' = [session EXCEPT !.pending = @ \ {s}]
       /\ IF raw[session.folder].exists
          THEN \E f \in feed :
                 raw' = [raw EXCEPT ![session.folder].files[s] = f]
          ELSE raw' = raw
  /\ UNCHANGED <<now, compiled, resampled, archives, last, history, earnings_csv, ml_vars, worker_vars>>

\* the end of the loop: the connection is closed (an error there ends the
\* run as a connection error does) and the run returns snapshot_dir
action_download_return ==
  /\ session.connected
  /\ session.pending = {}
  /\ session' = NoSession
  /\ \E outcome \in {"complete", "ftp_error"} :
       last' = Step("download", outcome, session.folder)
  /\ UNCHANGED <<now, raw, compiled, resampled, archives, history, earnings_csv, ml_vars, worker_vars>>

-----------------------------------------------------------------------------
(* STEP 2 - PROCESS *)

\* latest_folder.glob("*.txt")
TxtFiles(folder) == {s \in Sources : folder.files[s].exists}

\* prefer BOF header, fall back to folder name
ExtractionTimestamp(bof_ts, latest_folder) ==
  IF bof_ts = NoBof THEN latest_folder ELSE bof_ts

\* (variant: the merge is handed the folder's time, not the BOF time)
ProcessedFileFolderTime(txt_file, stem, latest_folder, prev_file) ==
  LET parsed == parse_ibkr_txt_file(txt_file, stem)
      bof_ts == ExtractionTimestamp(parsed.bof, latest_folder)
      df == WithTimestamp(parsed.df, bof_ts)
  IN IF ~parsed.ok \/ parsed.df.rows = <<>> THEN prev_file
     ELSE IF prev_file.exists
          THEN _merge_with_timestamp_tracking(prev_file, df, latest_folder)
          ELSE df

\* (variant: a file that does not parse empties the stored state)
ProcessedFileDroppingOnFailure(txt_file, stem, latest_folder, prev_file) ==
  LET parsed == parse_ibkr_txt_file(txt_file, stem)
      bof_ts == ExtractionTimestamp(parsed.bof, latest_folder)
      df == WithTimestamp(parsed.df, bof_ts)
  IN IF ~parsed.ok \/ parsed.df.rows = <<>> THEN NoTable
     ELSE IF prev_file.exists
          THEN _merge_with_timestamp_tracking(prev_file, df, bof_ts)
          ELSE df

\* (variant: a file is saved only over a stored state that exists)
ProcessedFileNeedingPrev(txt_file, stem, latest_folder, prev_file) ==
  LET parsed == parse_ibkr_txt_file(txt_file, stem)
      bof_ts == ExtractionTimestamp(parsed.bof, latest_folder)
      df == WithTimestamp(parsed.df, bof_ts)
  IN IF ~parsed.ok \/ parsed.df.rows = <<>> THEN prev_file
     ELSE IF prev_file.exists
          THEN _merge_with_timestamp_tracking(prev_file, df, bof_ts)
          ELSE prev_file

\* (variant: records are stamped with the time of the run, not of the snapshot)
ProcessedFileProcessingTime(txt_file, stem, latest_folder, prev_file) ==
  LET parsed == parse_ibkr_txt_file(txt_file, stem)
      df == WithTimestamp(parsed.df, now)
  IN IF ~parsed.ok \/ parsed.df.rows = <<>> THEN prev_file
     ELSE IF prev_file.exists
          THEN _merge_with_timestamp_tracking(prev_file, df, now)
          ELSE df

\* one pass of the loop body: what <stem>_processed.pkl holds afterwards
ProcessedFile(txt_file, stem, latest_folder, prev_file) ==
  LET parsed == parse_ibkr_txt_file(txt_file, stem)
      bof_ts == ExtractionTimestamp(parsed.bof, latest_folder)
      df == WithTimestamp(parsed.df, bof_ts)
  IN IF ~parsed.ok \/ parsed.df.rows = <<>> THEN prev_file
     ELSE IF prev_file.exists
          THEN _merge_with_timestamp_tracking(prev_file, df, bof_ts)
          ELSE df

\* the stems whose file the loop merges and saves (the others are skipped)
Merged(folder) ==
  {s \in TxtFiles(folder) :
     LET parsed == parse_ibkr_txt_file(folder.files[s], s)
     IN parsed.ok /\ parsed.df.rows /= <<>>}

\* the snapshot of a file as the merge receives it, for the history
Snapshot(txt_file, stem, latest_folder) ==
  LET parsed == parse_ibkr_txt_file(txt_file, stem)
  IN [ts |-> ExtractionTimestamp(parsed.bof, latest_folder), df |-> parsed.df]

\* (variant: a file that does not parse aborts the run before anything is saved)
action_processAbortOnFailure(track) ==
  LET latest_folder == _latest_timestamped_folder(raw)
  IN /\ track => \A s \in Sources : Len(history[s]) < MaxRuns
     /\ UNCHANGED <<now, raw, resampled, archives, history, session, earnings_csv, ml_vars, worker_vars>>
     /\ IF latest_folder = 0
        THEN /\ UNCHANGED compiled
             /\ last' = Step("process", "no_folder", 0)
        ELSE IF TxtFiles(raw[latest_folder]) = {}
        THEN /\ UNCHANGED compiled
             /\ last' = Step("process", "no_txt", latest_folder)
        ELSE /\ compiled' = [s \in Sources |->
                  IF /\ s \in TxtFiles(raw[latest_folder])
                     /\ TxtFiles(raw[latest_folder]) = Merged(raw[latest_folder])
                  THEN ProcessedFile(raw[latest_folder].files[s], s,
                                     latest_folder, compiled[s])
                  ELSE compiled[s]]
             /\ last' = [Step("process", "complete", latest_folder)
                         EXCEPT !.prev = compiled]

\* track: record the merged snapshots in history, for at most MaxRuns runs
action_process(track) ==
  LET latest_folder == _latest_timestamped_folder(raw)
  IN /\ track => \A s \in Sources : Len(history[s]) < MaxRuns
     /\ UNCHANGED <<now, raw, resampled, archives, session, earnings_csv, ml_vars, worker_vars>>
     /\ IF latest_folder = 0
        THEN /\ UNCHANGED <<compiled, history>>
             /\ last' = Step("process", "no_folder", 0)
        ELSE IF TxtFiles(raw[latest_folder]) = {}
        THEN /\ UNCHANGED <<compiled, history>>
             /\ last' = Step("process", "no_txt", latest_folder)
        ELSE /\ compiled' = [s \in Sources |->
                  IF s \in TxtFiles(raw[latest_folder])
                  THEN ProcessedFile(raw[latest_folder].files[s], s,
                                     latest_folder, compiled[s])
                  ELSE compiled[s]]
             /\ history' = [s \in Sources |->
                  IF track /\ s \in Merged(raw[latest_folder])
                  THEN Append(history[s],
                         Snapshot(raw[latest_folder].files[s], s, latest_folder))
                  ELSE history[s]]
             /\ last' = [Step("process", "complete", latest_folder)
                         EXCEPT !.prev = compiled]

\* A <stem>_processed.pkl cut short: to_pickle opens the stored file itself
\* for writing, so a save that fails or is killed leaves a file that exists
\* and holds no table; read_pickle raises on it.
Truncated == [exists |-> TRUE, cols |-> {}, rows |-> <<>>]

\* every stored file the loop would read can be read
Loadable ==
  \A t \in Times : t = _latest_timestamped_folder(raw) =>
    \A s \in Merged(raw[t]) : compiled[s] /= Truncated

\* A process run that raises in the loop, at the k-th file glob listed:
\* the files before it are merged and saved; its own stored file is either
\* cut short by the failing save, or was cut short before and fails to load;
\* the files after it are not reached.
action_process_raises ==
  LET latest_folder == _latest_timestamped_folder(raw)
  IN /\ latest_folder /= 0
     /\ UNCHANGED <<now, raw, resampled, archives, history, session, earnings_csv, ml_vars, worker_vars>>
     /\ \E order \in Orders(TxtFiles(raw[latest_folder])) :
          \E k \in 1..Len(order) :
            LET done == {order[i] : i \in 1..(k - 1)}
            IN /\ order[k] \in Merged(raw[latest_folder])
               /\ \A s \in done \cap Merged(raw[latest_folder]) :
                    compiled[s] /= Truncated
               /\ compiled' = [s \in Sources |->
                    IF s \in done
                    THEN ProcessedFile(raw[latest_folder].files[s], s,
                                       latest_folder, compiled[s])
                    ELSE IF s = order[k] THEN Truncated
                    ELSE compiled[s]]
               /\ last' = [Step("process", "raised", latest_folder)
                           EXCEPT !.prev = compiled]

-----------------------------------------------------------------------------
(* STEP 3 - RESAMPLE *)

\* the i-th of rows for i in keep, in order
PickRows(rows, keep) ==
  [k \in 1..Cardinality(keep) |->
     rows[CHOOSE i \in keep : Cardinality({j \in keep : j <= i}) = k]]

SameOn(r1, r2, subset) == \A c \in subset : r1[c] = r2[c]

\* (variant: keep="first")
drop_duplicatesKeepFirst(df, subset) ==
  LET n == Len(df.rows)
      keep == {i \in 1..n :
                 \A j \in 1..(i - 1) : ~SameOn(df.rows[i], df.rows[j], subset)}
  IN Table(df.cols, PickRows(df.rows, keep))

\* df.drop_duplicates(subset=subset, keep="last")
drop_duplicates(df, subset) ==
  LET n == Len(df.rows)
      keep == {i \in 1..n :
                 \A j \in (i + 1)..n : ~SameOn(df.rows[i], df.rows[j], subset)}
  IN Table(df.cols, PickRows(df.rows, keep))

\* Clean symbols: upper, strip, drop the rows whose symbol has no length
\* (the empty string, and pd.NA, whose str.len() is NaN)
CleanSymbols(df) ==
  IF SYMBOL_COL \in df.cols
  THEN Table(df.cols,
         SelectSeq(MapSeq(df.rows, LAMBDA r :
                     [r EXCEPT ![SYMBOL_COL] = Strip(Upper(@))]),
                   LAMBDA r : r[SYMBOL_COL] /= "" /\ r[SYMBOL_COL] /= NA))
  ELSE df

\* (variant: the duplicates are dropped before the symbols are cleaned)
ResampledFileDedupFirst(df) ==
  CleanSymbols(drop_duplicates(df, df.cols \ {"TIMESTAMP"}))

\* the loop body of action_resample
ResampledFile(df) ==
  LET clean == CleanSymbols(df)
  IN drop_duplicates(clean, clean.cols \ {"TIMESTAMP"})

\* COMPILED_DIR.glob("*_processed.pkl")
PklFiles == {s \in Sources : compiled[s].exists}

action_resample(horizon) ==
  IF PklFiles = {}
  THEN /\ last' = Step("resample", "no_pkl", 0)
       /\ UNCHANGED <<now, raw, compiled, resampled, archives, history, session, earnings_csv, ml_vars, worker_vars>>
  ELSE \E t \in now..horizon :
         /\ t >= 1
         /\ now' = t
         /\ resampled' = [resampled EXCEPT ![t] =
              [exists |-> TRUE,
               files |-> [s \in Sources |->
                 IF s \in PklFiles THEN ResampledFile(compiled[s])
                 ELSE @.files[s]],
               master |-> @.master]]
         /\ last' = Step("resample", "complete", t)
         /\ UNCHANGED <<raw, compiled, archives, history, session, earnings_csv, ml_vars, worker_vars>>

-----------------------------------------------------------------------------
(* STEP 4 - COMPILE *)

\* the null pd.concat fills a missing column with
Missing(c) == IF c \in CHANGE_COLS \cup {"TIMESTAMP"} THEN NaN ELSE NA

\* pd.concat(frames, ignore_index=True), frames a sequence of tables
RECURSIVE concat(_)
concat(frames) ==
  IF frames = <<>> THEN Table({}, <<>>)
  ELSE LET head == frames[1]
           rest == concat(Tail(frames))
           cols == head.cols \cup rest.cols
           Fill(r) == [c \in cols |-> IF c \in DOMAIN r THEN r[c] ELSE Missing(c)]
       IN Table(cols, MapSeq(head.rows, Fill) \o MapSeq(rest.rows, Fill))

\* latest.glob("*.pkl.gz") without master.pkl.gz
PklGzFiles(folder) == {s \in Sources : folder.files[s].exists}

\* (variant: glob's master.pkl.gz is not filtered out and is read last)
MasterReadingMaster(folder, order) ==
  LET frames == [i \in 1..Len(order) |-> folder.files[order[i]]]
      master == concat(IF folder.master.exists
                       THEN Append(frames, folder.master) ELSE frames)
  IN drop_duplicates(master, master.cols \ {"TIMESTAMP"})

\* (variant: COUNTRY is left out of the dedup key)
MasterIgnoringCountry(folder, order) ==
  LET master == concat([i \in 1..Len(order) |-> folder.files[order[i]]])
  IN drop_duplicates(master, master.cols \ {"TIMESTAMP", "COUNTRY"})

\* master.pkl.gz from the files of a folder as glob listed them
Master(folder, order) ==
  LET master == concat([i \in 1..Len(order) |-> folder.files[order[i]]])
  IN drop_duplicates(master, master.cols \ {"TIMESTAMP"})

action_compile ==
  LET latest == _latest_timestamped_folder(resampled)
  IN /\ UNCHANGED <<now, raw, compiled, archives, history, session, earnings_csv, ml_vars, worker_vars>>
     /\ IF latest = 0
        THEN /\ resampled' = resampled
             /\ last' = Step("compile", "no_folder", 0)
        ELSE IF PklGzFiles(resampled[latest]) = {}
        THEN /\ resampled' = resampled
             /\ last' = Step("compile", "no_pkl", latest)
        ELSE \E order \in Orders(PklGzFiles(resampled[latest])) :
               /\ resampled' = [resampled EXCEPT ![latest].master =
                                  Master(resampled[latest], order)]
               /\ last' = [Step("compile", "complete", latest)
                           EXCEPT !.master = resampled[latest].master,
                                  !.order = order]

-----------------------------------------------------------------------------
(* STEP 5 - DELETE *)

\* (variant: every resampled folder is archived, the latest too)
action_deleteAllResampled ==
  LET raw_folders == _timestamped_folders(raw)
      to_archive == {t \in Times : resampled[t].exists}
  IN /\ raw' = [t \in Times |-> NoFolder]
     /\ resampled' = [t \in Times |-> NoResampled]
     /\ archives' = archives \cup {<<"raw", t>> : t \in raw_folders}
                             \cup {<<"resampled", t>> : t \in to_archive}
     /\ last' = Step("delete", "complete", 0)
     /\ UNCHANGED <<now, compiled, history, session, earnings_csv, ml_vars, worker_vars>>

action_delete ==
  LET raw_folders == _timestamped_folders(raw)
      dirs == {t \in Times : resampled[t].exists}
      to_archive == IF Cardinality(dirs) > 1
                    THEN dirs \ {_latest_timestamped_folder(resampled)}
                    ELSE {}
  IN /\ raw' = [t \in Times |-> NoFolder]
     /\ resampled' = [t \in Times |->
                        IF t \in to_archive THEN NoResampled ELSE resampled[t]]
     /\ archives' = archives \cup {<<"raw", t>> : t \in raw_folders}
                             \cup {<<"resampled", t>> : t \in to_archive}
     /\ last' = Step("delete", "complete", 0)
     /\ UNCHANGED <<now, compiled, history, session, earnings_csv, ml_vars, worker_vars>>

-----------------------------------------------------------------------------
(* Earnings calendar CSV (scrape_logic/nasdaq_earnings_calendar.py) *)

\* The calendar dates scraped, the scrape times, and the calls recorded
Dates == {"2025-01-02", "2025-01-03"}
ScrapedAt == {"09:00", "17:00"}
MaxCalls == 3

EARNINGS_KEYS == <<"name", "symbol", "marketCap", "epsForecast", "time",
                   "fiscalQuarterEnding", "noOfEsts", "lastYearEPS">>
CSV_HEADER == <<"Company Name", "Symbol", "Market Cap", "EPS Forecast", "Time",
                "Fiscal Quarter Ending", "No. of ESTs", "Last Year's EPS",
                "Scraped At">>

NoCsv == [exists |-> FALSE, rows |-> <<>>]

\* earnings.get(key, "")
Get(earnings, key) == IF key \in DOMAIN earnings THEN earnings[key] ELSE ""

\* the row written for one entry of the list
EarningsRow(earnings, scraped_at) ==
  [i \in 1..(Len(EARNINGS_KEYS) + 1) |->
     IF i <= Len(EARNINGS_KEYS) THEN Get(earnings, EARNINGS_KEYS[i])
     ELSE scraped_at]

EarningsRows(earnings_list, scraped_at) ==
  [i \in 1..Len(earnings_list) |-> EarningsRow(earnings_list[i], scraped_at)]

Recorded(earnings_list, date, scraped_at) ==
  [earnings_csv.calls EXCEPT ![date] =
     Append(@, [earnings_list |-> earnings_list, scraped_at |-> scraped_at])]

CallsMade == Len(earnings_csv.calls["2025-01-02"])
             + Len(earnings_csv.calls["2025-01-03"])

\* the same, writing the header on every call
save_earnings_to_csvHeaderEachCall(earnings_list, date, scraped_at) ==
  /\ CallsMade < MaxCalls
  /\ earnings_csv' =
       [files |-> IF earnings_list = <<>> THEN earnings_csv.files
                  ELSE [earnings_csv.files EXCEPT ![date] =
                          [exists |-> TRUE,
                           rows |-> @.rows \o <<CSV_HEADER>>
                                    \o EarningsRows(earnings_list, scraped_at)]],
        calls |-> Recorded(earnings_list, date, scraped_at)]
  /\ UNCHANGED <<pipeline_vars, ml_vars, worker_vars>>

save_earnings_to_csv(earnings_list, date, scraped_at) ==
  LET file_exists == earnings_csv.files[date].exists
      header == IF file_exists THEN <<>> ELSE <<CSV_HEADER>>
  IN /\ CallsMade < MaxCalls
     /\ earnings_csv' =
          [files |-> IF earnings_list = <<>> THEN earnings_csv.files
                     ELSE [earnings_csv.files EXCEPT ![date] =
                             [exists |-> TRUE,
                              rows |-> @.rows \o header
                                       \o EarningsRows(earnings_list, scraped_at)]],
           calls |-> Recorded(earnings_list, date, scraped_at)]
     /\ UNCHANGED <<pipeline_vars, ml_vars, worker_vars>>

-----------------------------------------------------------------------------

(* ML pipeline (ml_pipeline/pipeline.py, ml_pipeline/convert.py) *)

\* Three of the sources convert_all converts; the versions of a source's raw
\* data (0: no raw file); the runs of the pipeline
MLSources == {"stock_loan", "earnings", "fomc"}
MaxVersion == 2
MaxPipelineRuns == 2

\* sources=None, and sources given as a list
AllSources == [given |-> FALSE, list |-> {}]
Listed(list) == [given |-> TRUE, list |-> list]

NoRun == [run |-> 0, sources |-> AllSources, converted |-> {}, uploaded |-> {}]

\* a scraper writes new raw data for a source
scrape(source) ==
  /\ data_dir[source] < MaxVersion
  /\ data_dir' = [data_dir EXCEPT ![source] = @ + 1]
  /\ UNCHANGED <<pipeline_vars, worker_vars, earnings_csv, parquet_dir, run_result>>

\* ParquetConverter.convert_all: every converter runs; one that finds no raw
\* file returns None, the others write their Parquet file from the raw data
convert_all == [k \in MLSources |-> data_dir[k] > 0]

ParquetAfterConvertAll ==
  [k \in MLSources |-> IF convert_all[k] THEN data_dir[k] ELSE parquet_dir[k]]

\* MLPipeline.run(sources, upload); upload_ok: the files whose upload does
\* not raise
MLPipeline_run(sources, upload, upload_ok) ==
  LET all_results == IF sources.given THEN MLSources \cap sources.list
                     ELSE MLSources
      converted == {k \in all_results : convert_all[k]}
      uploaded == IF upload THEN converted \cap upload_ok ELSE {}
  IN /\ run_result.run < MaxPipelineRuns
     /\ parquet_dir' = ParquetAfterConvertAll
     /\ run_result' = [run |-> run_result.run + 1, sources |-> sources,
                       converted |-> converted, uploaded |-> uploaded]
     /\ UNCHANGED <<pipeline_vars, worker_vars, earnings_csv, data_dir>>

-----------------------------------------------------------------------------

(* process, step by step: several runs of the script at once *)

\* The runs of `--action process` that may be under way together
Runs == {1, 2}

Idle == [pc |-> "idle", folder |-> 0, todo |-> {}, stem |-> "",
         prev |-> NoTable, merged |-> NoTable]

\* the run picks the latest folder and lists its .txt files (lines 284-294)
process_start(r) ==
  LET latest_folder == _latest_timestamped_folder(raw)
  IN /\ processing[r].pc = "idle"
     /\ latest_folder /= 0
     /\ TxtFiles(raw[latest_folder]) /= {}
     /\ processing' = [processing EXCEPT ![r] =
          [Idle EXCEPT !.pc = "loop", !.folder = latest_folder,
                       !.todo = TxtFiles(raw[latest_folder])]]
     /\ UNCHANGED <<pipeline_vars, resampling, earnings_csv, ml_vars>>

\* the run parses its next file, reads the stored state and merges
\* (lines 298-319); a file that does not parse is skipped
process_read(r) ==
  /\ processing[r].pc = "loop"
  /\ \E s \in processing[r].todo :
       LET txt_file == raw[processing[r].folder].files[s]
           parsed == parse_ibkr_txt_file(txt_file, s)
           rest == processing[r].todo \ {s}
       IN /\ txt_file.exists
          /\ processing' = [processing EXCEPT ![r] =
               IF parsed.ok /\ parsed.df.rows /= <<>>
               THEN [@ EXCEPT !.pc = "merged", !.todo = rest, !.stem = s,
                              !.prev = compiled[s],
                              !.merged = ProcessedFile(txt_file, s,
                                           processing[r].folder, compiled[s])]
               ELSE IF rest = {} THEN Idle ELSE [@ EXCEPT !.todo = rest]]
  /\ UNCHANGED <<pipeline_vars, resampling, earnings_csv, ml_vars>>

\* the run saves what it merged (line 323) and goes on to its next file
process_write(r) ==
  /\ processing[r].pc = "merged"
  /\ compiled' = [compiled EXCEPT ![processing[r].stem] = processing[r].merged]
  /\ last' = [Step("process", "complete", processing[r].folder)
              EXCEPT !.prev = compiled]
  /\ processing' = [processing EXCEPT ![r] =
       IF @.todo = {} THEN Idle
       ELSE [Idle EXCEPT !.pc = "loop", !.folder = @.folder, !.todo = @.todo]]
  /\ UNCHANGED <<now, raw, resampled, archives, history, session, resampling,
                 earnings_csv, ml_vars>>

-----------------------------------------------------------------------------

(* resample, step by step: compile may run before resample returns *)

NoResampling == [folder |-> 0, pending |-> {}]

\* the run lists COMPILED_DIR and creates its output folder (lines 332-343)
action_resample_mkdir(horizon) ==
  /\ resampling = NoResampling
  /\ PklFiles /= {}
  /\ \E t \in now..horizon :
       /\ t >= 1
       /\ now' = t
       /\ resampled' = [resampled EXCEPT ![t].exists = TRUE]
       /\ resampling' = [folder |-> t, pending |-> PklFiles]
  /\ UNCHANGED <<raw, compiled, archives, last, history, session, processing,
                 earnings_csv, ml_vars>>

\* the run compacts its next file and saves it (lines 347-361); after the
\* last file it returns
action_resample_file ==
  /\ resampling.pending /= {}
  /\ \E s \in resampling.pending :
       /\ compiled[s].exists
       /\ resampled' = [resampled EXCEPT ![resampling.folder].files[s] =
                          ResampledFile(compiled[s])]
       /\ resampling' = IF resampling.pending = {s} THEN NoResampling
                        ELSE [resampling EXCEPT !.pending = @ \ {s}]
  /\ UNCHANGED <<now, raw, compiled, archives, last, history, session,
                 processing, earnings_csv, ml_vars>>

-----------------------------------------------------------------------------

(* Specifications *)

\* the state of the earnings CSV folder, the ML pipeline and the runs under
\* way before anything has run
InitAside ==
  /\ earnings_csv = [files |-> [d \in Dates |-> NoCsv],
                     calls |-> [d \in Dates |-> <<>>]]
  /\ data_dir = [k \in MLSources |-> 0]
  /\ parquet_dir = [k \in MLSources |-> 0]
  /\ run_result = NoRun
  /\ processing = [r \in Runs |-> Idle]
  /\ resampling = NoResampling

Init ==
  /\ now = 0
  /\ raw = [t \in Times |-> NoFolder]
  /\ compiled = NoCompiled
  /\ resampled = [t \in Times |-> NoResampled]
  /\ archives = {}
  /\ last = Step("init", "complete", 0)
  /\ history = [s \in Sources |-> <<>>]
  /\ session = NoSession
  /\ InitAside

FullHeader == <<"SYM", "NAME", "REBATERATE", "FEERATE", "AVAILABLE">>

\* SpecMerge: one stem, a download per second but the last.  Files of one
\* line with every change column over text that parses to 1, 2 and null;
\* files of two lines (the same symbol twice, or two symbols); files with a
\* #BOF time; a renamed instrument.
MergeLines1 ==
  {<<"A", "X", r, f, a>> : r \in {"1", "NA"}, f \in {"1", "2", "NA"}, a \in {"1", ""}}
    \cup {<<"b", "X", "NA", "NA", "">>}
MergeLines2 ==
  {<<sym, "X", "1", f, "1">> : sym \in {"A", "b"}, f \in {"1", "NA"}}
MergeFeed ==
  {Txt(NoBof, FullHeader, <<l>>) : l \in MergeLines1}
    \cup {Txt(NoBof, FullHeader, <<l1, l2>>) : l1 \in MergeLines2, l2 \in MergeLines2}
    \cup {Txt(bof, FullHeader, <<(<<sym, "X", "1", f, "1">>)>>) :
            bof \in {1, MaxTime}, sym \in {"A", "b"}, f \in {"1", "x"}}
    \cup {Txt(NoBof, FullHeader, <<(<<" a", "Y", "1", f, "1">>)>>) : f \in {"1", "2"}}

NextMerge ==
  \/ action_download({"usa"}, MergeFeed, MaxTime - 1)
  \/ action_process(FALSE)

SpecMerge == Init /\ [][NextMerge]_vars

\* SpecHistory: one stem, a download per second, every merged snapshot
\* recorded.  One symbol whose fee changes or not, a second symbol that
\* comes and goes, a file without a header, a file with an early #BOF time.
HistoryFeed ==
  {Txt(NoBof, FullHeader, <<(<<"A", "X", "1", f, "1">>)>>) : f \in {"1", "2", "NA"}}
    \cup {Txt(NoBof, FullHeader, <<(<<"b", "X", "1", "1", "1">>)>>)}
    \cup {Txt(NoBof, FullHeader, <<(<<"A", "X", "1", f, "1">>), (<<"b", "X", "1", "1", "1">>)>>) :
            f \in {"1", "2"}}
    \cup {Txt(NoBof, <<>>, <<(<<"A", "X", "1", "1", "1">>)>>)}
    \cup {Txt(1, FullHeader, <<(<<"A", "X", "1", "1", "1">>)>>)}

NextHistory ==
  \/ action_download({"usa"}, HistoryFeed, MaxTime)
  \/ action_process(TRUE)

SpecHistory == Init /\ [][NextHistory]_vars

\* SpecCollide: one download, then process, resample, compile, of two files
\* whose stems differ by case only (usa.txt, USA.txt), so that both carry
\* COUNTRY = USA.  One line at several #BOF times, the same line twice, two
\* symbols.
CollideFeed ==
  {Txt(bof, FullHeader, <<(<<"A", "X", "1", "1", "1">>)>>) : bof \in {NoBof, 1, MaxTime}}
    \cup {Txt(NoBof, FullHeader, <<(<<"A", "X", "1", "1", "1">>), (<<sym, "X", "1", "1", "1">>)>>) :
            sym \in {"A", "b"}}

NextCollide ==
  \/ action_download({"usa", "USA"}, CollideFeed, MaxTime - 2)
  \/ action_process(FALSE)
  \/ action_resample(MaxTime - 2)
  \/ action_compile

SpecCollide == Init /\ [][NextCollide]_vars

\* SpecCompile: two downloads of usa.txt and can.txt, one symbol at one fee
\* or the other, then process, resample, compile in any order
CompileFeed ==
  {Txt(NoBof, FullHeader, <<(<<"A", "X", "1", f, "1">>)>>) : f \in {"1", "2"}}

NextCompile ==
  \/ action_download({"usa", "can"}, CompileFeed, MaxTime - 1)
  \/ action_process(FALSE)
  \/ action_resample(MaxTime - 1)
  \/ action_compile

SpecCompile == Init /\ [][NextCompile]_vars

\* SpecDrift: one stem, a download per second, the header changing from one
\* download to the next: all columns, no FEERATE, no change column, no SYM.
\* The cells of a line go to the header's columns by position.
DriftHeaders ==
  {FullHeader,
   <<"SYM", "NAME", "REBATERATE", "AVAILABLE">>,
   <<"SYM", "NAME">>,
   <<"NAME", "FEERATE">>}
DriftFeed ==
  {Txt(NoBof, h, <<(<<"A", "X", "1", f, "1">>)>>) : h \in DriftHeaders, f \in {"1", "2"}}

NextDrift ==
  \/ action_download({"usa"}, DriftFeed, MaxTime)
  \/ action_process(FALSE)

SpecDrift == Init /\ [][NextDrift]_vars

\* SpecFault: two downloads of usa.txt and can.txt, and process runs that
\* complete or raise while reading or saving a stored file
NextFault ==
  \/ action_download({"usa", "can"}, CompileFeed, MaxTime - 1)
  \/ Loadable /\ action_process(FALSE)
  \/ action_process_raises

SpecFault == Init /\ [][NextFault]_vars

\* SpecBatch: two downloads of usa.txt and can.txt, either of which may
\* come without a header or without data lines
BatchFeed ==
  CompileFeed
    \cup {Txt(NoBof, <<>>, <<(<<"A", "X", "1", "1", "1">>)>>),
          Txt(NoBof, FullHeader, <<>>)}

NextBatch ==
  \/ action_download({"usa", "can"}, BatchFeed, MaxTime - 1)
  \/ action_process(FALSE)

SpecBatch == Init /\ [][NextBatch]_vars

\* SpecConcurrent: download runs step by step, and delete runs between the
\* steps
NextConcurrent ==
  \/ action_download_mkdir(MaxTime - 1)
  \/ action_download_connect({"usa", "can"})
  \/ action_download_retr(CompileFeed)
  \/ action_download_return
  \/ action_delete

SpecConcurrent == Init /\ [][NextConcurrent]_vars

\* SpecParse: downloads of can.txt and process runs.  Symbols in lower
\* case, padded, blank, and the symbol NA; cells that are numbers, text,
\* the placeholder NA, or empty.
ParseLines ==
  {<<sym, "X", "1", f, "1">> : sym \in {"A", " a", "na", "NA", "", " "},
                               f \in {"1", "x", "NA", ""}}
ParseFeed ==
  {Txt(NoBof, FullHeader, <<l>>) : l \in ParseLines}
    \cup {Txt(NoBof, FullHeader, <<l1, l2>>) :
            l1 \in {<<"", "X", "1", "1", "1">>, <<"NA", "X", "1", "1", "1">>,
                    <<"A", "X", "1", "x", "1">>},
            l2 \in {<<" a", "X", "1", "1", "1">>, <<"na", "X", "1", "NA", "1">>,
                    <<" ", "X", "1", "1", "1">>}}

NextParse ==
  \/ action_download({"can"}, ParseFeed, MaxTime - 1)
  \/ action_process(FALSE)

SpecParse == Init /\ [][NextParse]_vars

\* Spec: the whole pipeline over usa.txt and can.txt, each published or not
\* with one line
PipelineFeed ==
  {Txt(NoBof, FullHeader, <<(<<"A", "X", "1", "1", "1">>)>>)}

Next ==
  \/ action_download({"usa", "can"}, PipelineFeed, MaxTime - 1)
  \/ action_process(FALSE)
  \/ action_resample(MaxTime - 1)
  \/ action_compile
  \/ action_delete

Spec == Init /\ [][Next]_vars

\* SpecEarnings: calls of save_earnings_to_csv for two dates, with an empty
\* list, a list of one entry and a list of two (one entry lacks most keys).
Apple == [name |-> "Apple Inc.", symbol |-> "AAPL", marketCap |-> "$3T",
          epsForecast |-> "$1.60", time |-> "time-after-hours",
          fiscalQuarterEnding |-> "Dec/2024", noOfEsts |-> "12",
          lastYearEPS |-> "$1.46"]
Bare == [symbol |-> "MSFT"]
EarningsLists == {<<>>, <<Apple>>, <<Bare, Apple>>}

NextEarnings ==
  \E earnings_list \in EarningsLists, date \in Dates, scraped_at \in ScrapedAt :
    save_earnings_to_csv(earnings_list, date, scraped_at)

SpecEarnings == Init /\ [][NextEarnings]_vars

\* SpecML: scrapers renew the raw data of the sources; the pipeline runs
\* over all sources or over a list of them, with and without upload.
SourceLists == {AllSources, Listed({"earnings"}), Listed({"stock_loan", "fomc"})}

NextML ==
  \/ \E source \in MLSources : scrape(source)
  \/ \E sources \in SourceLists, upload \in BOOLEAN,
        upload_ok \in {MLSources, {"earnings"}, {}} :
       MLPipeline_run(sources, upload, upload_ok)

SpecML == Init /\ [][NextML]_vars

\* SpecRace: two runs of process at once over usa.txt, downloads arriving
\* between their steps.
NextRace ==
  \/ action_download({"usa"}, CompileFeed, MaxTime - 1)
  \/ \E r \in Runs : process_start(r)
  \/ \E r \in Runs : process_read(r)
  \/ \E r \in Runs : process_write(r)

SpecRace == Init /\ [][NextRace]_vars

\* SpecOverlap: the pipeline over usa.txt and can.txt with resample writing
\* its folder file by file, compile free to run between two files.
NextOverlap ==
  \/ action_download({"usa", "can"}, PipelineFeed, MaxTime - 1)
  \/ action_process(FALSE)
  \/ action_resample_mkdir(MaxTime - 1)
  \/ action_resample_file
  \/ action_compile

SpecOverlap == Init /\ [][NextOverlap]_vars

\* SpecCompact: resample over a COMPILED_DIR holding any usa_processed.pkl
\* of at most MaxLines rows: symbols in any case, padded, empty or null,
\* the same record at several timestamps, or a table without a SYM column.
CompactRows ==
  {[c \in {"SYM", "FEERATE", "COUNTRY", "TIMESTAMP"} |->
      CASE c = "SYM" -> sym [] c = "FEERATE" -> 1 [] c = "COUNTRY" -> "USA" [] OTHER -> ts] :
     sym \in {"A", "a", " a", "", NA}, ts \in {1, 2}}
CompactBareRows ==
  {[c \in {"FEERATE", "TIMESTAMP"} |-> IF c = "FEERATE" THEN 1 ELSE ts] : ts \in {1, 2}}
SeqsUpTo(S, n) == UNION {[1..k -> S] : k \in 0..n}
CompactInputs ==
  {Table({"SYM", "FEERATE", "COUNTRY", "TIMESTAMP"}, rows) : rows \in SeqsUpTo(CompactRows, MaxLines)}
    \cup {Table({"FEERATE", "TIMESTAMP"}, rows) : rows \in SeqsUpTo(CompactBareRows, MaxLines)}

InitCompact ==
  /\ now = 0
  /\ raw = [t \in Times |-> NoFolder]
  /\ \E df \in CompactInputs : compiled = [NoCompiled EXCEPT !["usa"] = df]
  /\ resampled = [t \in Times |-> NoResampled]
  /\ archives = {}
  /\ last = Step("init", "complete", 0)
  /\ history = [s \in Sources |-> <<>>]
  /\ session = NoSession
  /\ InitAside

NextCompact == action_resample(MaxTime - 1)

SpecCompact == InitCompact /\ [][NextCompact]_vars

-----------------------------------------------------------------------------
(* Reading the last process run *)

\* the stems whose file the last step, a process run, merged and saved
MergedByLast ==
  IF last.op = "process" /\ last.outcome = "complete"
  THEN Merged(raw[last.folder]) ELSE {}

\* the extraction timestamp of the snapshot of stem s in the folder read:
\* the file's BOF time, else the download folder's time
Ets(s) ==
  LET f == raw[last.folder].files[s]
  IN IF f.bof = NoBof THEN last.folder ELSE f.bof

Indices(df) == 1..Len(df.rows)
SymbolsOf(df) == {df.rows[i]["SYM"] : i \in Indices(df)}
Occurrences(df, sym) == {i \in Indices(df) : df.rows[i]["SYM"] = sym}
SameChangeCols(n, p) ==
  /\ n["AVAILABLE"] = p["AVAILABLE"]
  /\ n["FEERATE"] = p["FEERATE"]
  /\ n["REBATERATE"] = p["REBATERATE"]

-----------------------------------------------------------------------------
(* C1: after process merges a snapshot against the stored previous state, a
   record whose symbol has a record in the previous state with equal
   AVAILABLE, FEERATE and REBATERATE (null equal to null) carries that
   record's TIMESTAMP, and a record with a differing change column carries
   the snapshot's extraction timestamp.  Stated for symbols with one record
   in the previous state. *)
C1_TimestampCarriedForward ==
  \A s \in MergedByLast :
    last.prev[s].exists =>
      \A i \in Indices(compiled[s]), j \in Indices(last.prev[s]) :
        LET n == compiled[s].rows[i]
            p == last.prev[s].rows[j]
        IN (n["SYM"] = p["SYM"] /\ Cardinality(Occurrences(last.prev[s], p["SYM"])) = 1)
             => IF SameChangeCols(n, p)
                THEN n["TIMESTAMP"] = p["TIMESTAMP"]
                ELSE n["TIMESTAMP"] = Ets(s)

\* an unchanged record kept an older timestamp, and in the same run a
\* changed record of another symbol took the new one
C1_Witness ==
  \E s \in MergedByLast :
    /\ last.prev[s].exists
    /\ \E i \in Indices(compiled[s]), j \in Indices(last.prev[s]) :
         LET n == compiled[s].rows[i]
             p == last.prev[s].rows[j]
         IN /\ n["SYM"] = p["SYM"]
            /\ Cardinality(Occurrences(last.prev[s], p["SYM"])) = 1
            /\ SameChangeCols(n, p)
            /\ n["TIMESTAMP"] = p["TIMESTAMP"]
            /\ p["TIMESTAMP"] < Ets(s)
    /\ \E i \in Indices(compiled[s]), j \in Indices(last.prev[s]) :
         LET n == compiled[s].rows[i]
             p == last.prev[s].rows[j]
         IN /\ n["SYM"] = p["SYM"]
            /\ Cardinality(Occurrences(last.prev[s], p["SYM"])) = 1
            /\ ~SameChangeCols(n, p)
            /\ n["TIMESTAMP"] = Ets(s)
            /\ p["TIMESTAMP"] < Ets(s)

(* C3 as claimed: every record of the stored state is still stored after a
   later process run of the same source. *)
C3_AppendOnly ==
  \A s \in MergedByLast :
    \A j \in Indices(last.prev[s]) : last.prev[s].rows[j] \in Range(compiled[s].rows)

(* C3 amended: the stored state is replaced by each run; a record of the
   previous state is still stored after the run when it was the latest
   record of its symbol and the new snapshot holds a record equal to it in
   every column but TIMESTAMP. *)
C3_UnchangedRecordKept ==
  \A s \in MergedByLast :
    LET snap == parse_ibkr_txt_file(raw[last.folder].files[s], s).df
    IN \A j \in Indices(last.prev[s]) :
         LET p == last.prev[s].rows[j]
         IN (/\ \A k \in Occurrences(last.prev[s], p["SYM"]) : k <= j
             /\ \E i \in Indices(snap) : \A c \in snap.cols : snap.rows[i][c] = p[c])
              => p \in Range(compiled[s].rows)

\* a record outlived a run that stamped another record anew
C3_Witness ==
  \E s \in MergedByLast :
    /\ \E j \in Indices(last.prev[s]) :
         /\ last.prev[s].rows[j] \in Range(compiled[s].rows)
         /\ last.prev[s].rows[j]["TIMESTAMP"] < Ets(s)
    /\ \E j \in Indices(last.prev[s]) :
         last.prev[s].rows[j] \notin Range(compiled[s].rows)

(* C5: a record whose symbol has no record in the previous stored state (or
   there is no previous state) carries the snapshot's extraction timestamp,
   whatever its fields hold. *)
C5_NewSymbolStamped ==
  \A s \in MergedByLast :
    \A i \in Indices(compiled[s]) :
      compiled[s].rows[i]["SYM"] \notin SymbolsOf(last.prev[s])
        => compiled[s].rows[i]["TIMESTAMP"] = Ets(s)

\* a symbol new to a stored state of an earlier time, its change columns all
\* null, stamped with the extraction timestamp of its snapshot
C5_Witness ==
  \E s \in MergedByLast :
    /\ last.prev[s].exists
    /\ \E i \in Indices(compiled[s]) :
         LET n == compiled[s].rows[i]
         IN /\ n["SYM"] \notin SymbolsOf(last.prev[s])
            /\ n["AVAILABLE"] = NaN /\ n["FEERATE"] = NaN /\ n["REBATERATE"] = NaN
            /\ n["TIMESTAMP"] = Ets(s)
            /\ \A j \in Indices(last.prev[s]) :
                 last.prev[s].rows[j]["TIMESTAMP"] < Ets(s)

(* C6: the test on one change column is null-aware: null against null is no
   change; null against a value, a value against null and two unequal values
   are changes; a record is changed (restamped) exactly when some change
   column is.  Read off the timestamps of a run whose extraction timestamp
   differs from the previous record's. *)
C6_Change(nv, ov) ==
  \/ nv = NaN /\ ov /= NaN
  \/ nv /= NaN /\ ov = NaN
  \/ nv /= NaN /\ ov /= NaN /\ nv /= ov

C6_NullAwareChange ==
  \A s \in MergedByLast :
    last.prev[s].exists =>
      \A i \in Indices(compiled[s]), j \in Indices(last.prev[s]) :
        LET n == compiled[s].rows[i]
            p == last.prev[s].rows[j]
        IN (/\ n["SYM"] = p["SYM"]
            /\ Cardinality(Occurrences(last.prev[s], p["SYM"])) = 1
            /\ p["TIMESTAMP"] /= Ets(s))
             => ((n["TIMESTAMP"] = Ets(s))
                   <=> \E c \in CHANGE_COLS : C6_Change(n[c], p[c]))

\* null against null left a record unchanged while null against a value
\* restamped another
C6_Witness ==
  \E s \in MergedByLast :
    /\ last.prev[s].exists
    /\ \E i \in Indices(compiled[s]), j \in Indices(last.prev[s]) :
         LET n == compiled[s].rows[i]
             p == last.prev[s].rows[j]
         IN /\ n["SYM"] = p["SYM"]
            /\ Cardinality(Occurrences(last.prev[s], p["SYM"])) = 1
            /\ n["FEERATE"] = NaN /\ p["FEERATE"] = NaN
            /\ n["TIMESTAMP"] = p["TIMESTAMP"]
            /\ p["TIMESTAMP"] /= Ets(s)
    /\ \E i \in Indices(compiled[s]), j \in Indices(last.prev[s]) :
         LET n == compiled[s].rows[i]
             p == last.prev[s].rows[j]
         IN /\ n["SYM"] = p["SYM"]
            /\ Cardinality(Occurrences(last.prev[s], p["SYM"])) = 1
            /\ n["FEERATE"] = NaN /\ p["FEERATE"] /= NaN
            /\ n["AVAILABLE"] = p["AVAILABLE"] /\ n["REBATERATE"] = p["REBATERATE"]
            /\ n["TIMESTAMP"] = Ets(s)
            /\ p["TIMESTAMP"] /= Ets(s)

-----------------------------------------------------------------------------
(* Reading the recorded history of a stem *)

ChangeTuple(df, sym) ==
  LET r == df.rows[CHOOSE i \in Occurrences(df, sym) : TRUE]
  IN <<r["AVAILABLE"], r["FEERATE"], r["REBATERATE"]>>

\* the runs m at which a sequence of snapshots m..N starts that each hold
\* one record of sym, with increasing extraction timestamps, sym being new
\* to snapshot m
SequencesOf(h, sym) ==
  {m \in 1..Len(h) :
     /\ \A k \in m..Len(h) : Cardinality(Occurrences(h[k].df, sym)) = 1
     /\ \A k \in m..(Len(h) - 1) : h[k].ts < h[k + 1].ts
     /\ m = 1 \/ Occurrences(h[m - 1].df, sym) = {}}

\* the snapshot of m..N at which the change columns of sym last differed
\* from the snapshot before, m when they never did
LastDiffered(h, sym, m) ==
  LET ks == {m} \cup {k \in (m + 1)..Len(h) :
                        ChangeTuple(h[k].df, sym) /= ChangeTuple(h[k - 1].df, sym)}
  IN CHOOSE k \in ks : \A j \in ks : j <= k

(* C2: for a symbol held by each of the snapshots t1 < ... < tN of a source
   processed in order, the TIMESTAMP stored after each run is the extraction
   timestamp of the snapshot at which its change columns last differed from
   the snapshot before (t1 when they never did), and it never decreases from
   one run to the next. *)
C2_TimestampOfLastChange ==
  \A s \in Sources : \A sym \in {"A", "B"} :
    \A m \in SequencesOf(history[s], sym) :
      /\ Occurrences(compiled[s], sym) /= {}
      /\ \A i \in Occurrences(compiled[s], sym) :
           compiled[s].rows[i]["TIMESTAMP"]
             = history[s][LastDiffered(history[s], sym, m)].ts
      /\ (s \in MergedByLast /\ m < Len(history[s])) =>
           \A i \in Occurrences(compiled[s], sym), j \in Occurrences(last.prev[s], sym) :
             last.prev[s].rows[j]["TIMESTAMP"] <= compiled[s].rows[i]["TIMESTAMP"]

\* three snapshots of a symbol, the second changed, the third not: the
\* stored timestamp is the second's
C2_Witness ==
  \E s \in Sources : \E sym \in {"A", "B"} :
    /\ Len(history[s]) = 3
    /\ 1 \in SequencesOf(history[s], sym)
    /\ LastDiffered(history[s], sym, 1) = 2
    /\ s \in MergedByLast
    /\ \E i \in Occurrences(compiled[s], sym) :
         compiled[s].rows[i]["TIMESTAMP"] = history[s][2].ts

(* C4: after a process run that merged a source, its stored state holds
   exactly the records of the new snapshot, in order; a symbol of the
   previous state that the snapshot lacks is no longer stored; a symbol that
   comes back in a later snapshot carries that snapshot's extraction
   timestamp, also when its change columns are what they were before. *)
C4_OnlyTheNewSnapshot ==
  \A s \in MergedByLast :
    LET h == history[s]
        snap == h[Len(h)].df
    IN /\ Len(h) >= 1
       /\ compiled[s].cols = snap.cols \cup {"TIMESTAMP"}
       /\ Len(compiled[s].rows) = Len(snap.rows)
       /\ \A i \in Indices(snap) : \A c \in snap.cols :
            compiled[s].rows[i][c] = snap.rows[i][c]
       /\ \A sym \in SymbolsOf(last.prev[s]) \ SymbolsOf(snap) :
            sym \notin SymbolsOf(compiled[s])
       /\ \A sym \in SymbolsOf(snap) :
            (Len(h) >= 2 /\ sym \notin SymbolsOf(h[Len(h) - 1].df)) =>
              \A i \in Occurrences(compiled[s], sym) :
                compiled[s].rows[i]["TIMESTAMP"] = h[Len(h)].ts

\* a symbol stored, then gone, then back with its old change columns and
\* the timestamp of the snapshot that brought it back
C4_Witness ==
  \E s \in MergedByLast : \E sym \in {"A", "B"} :
    LET h == history[s]
    IN /\ Len(h) = 3
       /\ Occurrences(h[1].df, sym) /= {}
       /\ Occurrences(h[2].df, sym) = {}
       /\ Occurrences(h[3].df, sym) /= {}
       /\ ChangeTuple(h[3].df, sym) = ChangeTuple(h[1].df, sym)
       /\ h[1].ts < h[3].ts
       /\ sym \notin SymbolsOf(last.prev[s])
       /\ \A i \in Occurrences(compiled[s], sym) :
            compiled[s].rows[i]["TIMESTAMP"] = h[3].ts

-----------------------------------------------------------------------------
(* Reading the last resample or compile run *)

RowSet(df) == Range(df.rows)
KeyCols(df) == df.cols \ {"TIMESTAMP"}

\* the rows of df that agree with its i-th row on every column but TIMESTAMP
Duplicates(df, i) == {j \in Indices(df) : SameOn(df.rows[i], df.rows[j], KeyCols(df))}
MaxOf(S) == CHOOSE x \in S : \A y \in S : y <= x

ResampleDone == last.op = "resample" /\ last.outcome = "complete"
CompileDone == last.op = "compile" /\ last.outcome = "complete"

\* what the dedup of the last run was given and what it left: for compile the
\* concatenation of the folder's files in the order read and the master, for
\* resample each cleaned processed file and its compacted file
Compactions ==
  IF CompileDone
  THEN {[in |-> concat([i \in 1..Len(last.order) |->
                          resampled[last.folder].files[last.order[i]]]),
         out |-> resampled[last.folder].master]}
  ELSE IF ResampleDone
  THEN {[in |-> CleanSymbols(compiled[s]),
         out |-> resampled[last.folder].files[s]] : s \in PklFiles}
  ELSE {}

OneRowPerKey(c) ==
  \A k1, k2 \in Indices(c.out) :
    SameOn(c.out.rows[k1], c.out.rows[k2], KeyCols(c.in)) => k1 = k2

(* C7 as claimed: compaction leaves one row per tuple of non-TIMESTAMP
   values, and the row it leaves carries the latest TIMESTAMP among the
   duplicates of the input, whatever their order. *)
C7_KeepsLatestTimestamp ==
  \A c \in Compactions :
    /\ OneRowPerKey(c)
    /\ \A i \in Indices(c.in) :
         \E k \in Indices(c.out) :
           /\ SameOn(c.out.rows[k], c.in.rows[i], KeyCols(c.in))
           /\ c.out.rows[k]["TIMESTAMP"] =
                MaxOf({c.in.rows[j]["TIMESTAMP"] : j \in Duplicates(c.in, i)})

(* C7 amended: compaction leaves one row per tuple of non-TIMESTAMP values,
   and the row it leaves is the one that comes last in the input among the
   duplicates, whatever their TIMESTAMPs. *)
C7_KeepsLastInOrder ==
  \A c \in Compactions :
    /\ OneRowPerKey(c)
    /\ \A i \in Indices(c.in) :
         c.in.rows[MaxOf(Duplicates(c.in, i))] \in RowSet(c.out)
    /\ \A k \in Indices(c.out) :
         \E i \in Indices(c.in) : c.out.rows[k] = c.in.rows[MaxOf(Duplicates(c.in, i))]

\* a compile whose input held a record twice, the later timestamp first, and
\* whose master holds the earlier timestamp
C7_Witness ==
  /\ CompileDone
  /\ \E c \in Compactions : \E i, j \in Indices(c.in) :
       /\ i < j
       /\ j = MaxOf(Duplicates(c.in, i))
       /\ c.in.rows[i]["TIMESTAMP"] > c.in.rows[j]["TIMESTAMP"]
       /\ c.in.rows[j] \in RowSet(c.out)
       /\ c.in.rows[i] \notin RowSet(c.out)

(* C8: the resample transformation (clean the symbols, drop the rows without
   a symbol, drop the duplicates on all columns but TIMESTAMP) applied to a
   file it wrote gives the same set of rows. *)
C8_ResampleIdempotent ==
  ResampleDone =>
    \A s \in PklFiles :
      LET out == resampled[last.folder].files[s]
      IN RowSet(ResampledFile(out)) = RowSet(out)

\* a resample that rewrote a symbol and dropped a row of its input
C8_Witness ==
  /\ ResampleDone
  /\ \E s \in PklFiles :
       LET out == resampled[last.folder].files[s]
       IN /\ SYMBOL_COL \in compiled[s].cols
          /\ \E i \in Indices(compiled[s]) :
               /\ compiled[s].rows[i][SYMBOL_COL] /= NA
               /\ Strip(Upper(compiled[s].rows[i][SYMBOL_COL])) /= compiled[s].rows[i][SYMBOL_COL]
          /\ Len(out.rows) < Len(compiled[s].rows)
          /\ Len(out.rows) >= 1

(* C9: a compile writes a master whose rows are rows of the folder's
   per-source files, one for every row of theirs up to TIMESTAMP, whatever
   master.pkl.gz it found in the folder; and a compile that follows a
   compile writes the same set of rows. *)
C9_CompileRerunnable ==
  [][(last'.op = "compile" /\ last'.outcome = "complete") =>
       LET folder == resampled[last'.folder]
           master == resampled'[last'.folder].master
           rows == UNION {RowSet(folder.files[s]) : s \in PklGzFiles(folder)}
       IN /\ RowSet(master) \subseteq rows
          /\ \A r \in rows : \E m \in RowSet(master) : SameOn(m, r, DOMAIN r \ {"TIMESTAMP"})
          /\ CompileDone => RowSet(master) = RowSet(folder.master)]_vars

\* a compile over a folder whose master.pkl.gz, written by the compile
\* before, held the same rows in another order
C9_Witness ==
  /\ CompileDone
  /\ last.master.exists
  /\ RowSet(last.master) = RowSet(resampled[last.folder].master)
  /\ last.master.rows /= resampled[last.folder].master.rows

(* C10: COUNTRY is part of the key of the compile dedup: rows of two files
   that differ in COUNTRY (and TIMESTAMP) only are both in the master; and
   when no two rows of the files agree on all columns but TIMESTAMP, the
   master has as many rows as the files together. *)
C10_CountryInDedupKey ==
  CompileDone =>
    \A c \in Compactions :
      /\ \A i, j \in Indices(c.in) :
           (/\ c.in.rows[i]["COUNTRY"] /= c.in.rows[j]["COUNTRY"]
            /\ SameOn(c.in.rows[i], c.in.rows[j], KeyCols(c.in) \ {"COUNTRY"}))
             => c.in.rows[i] \in RowSet(c.out) /\ c.in.rows[j] \in RowSet(c.out)
      /\ (\A i \in Indices(c.in) : Duplicates(c.in, i) = {i})
           => Len(c.out.rows) = Len(c.in.rows)

\* a master holding the same symbol at the same values from usa and from can
C10_Witness ==
  /\ CompileDone
  /\ \E c \in Compactions : \E i, j \in Indices(c.in) :
       /\ c.in.rows[i]["COUNTRY"] = "USA" /\ c.in.rows[j]["COUNTRY"] = "CAN"
       /\ SameOn(c.in.rows[i], c.in.rows[j], KeyCols(c.in) \ {"COUNTRY"})
       /\ c.in.rows[i] \in RowSet(c.out) /\ c.in.rows[j] \in RowSet(c.out)
       /\ Len(c.out.rows) = 2

-----------------------------------------------------------------------------
ProcessDone == last.op = "process" /\ last.outcome = "complete"

(* C11: when the file of a source in the download folder read has no header
   line, the parser reports failure and the process run leaves the stored
   state of that source as it was: the same records with the same
   timestamps. *)
C11_HeaderlessLeavesState ==
  ProcessDone =>
    \A s \in TxtFiles(raw[last.folder]) :
      raw[last.folder].files[s].header = <<>> =>
        /\ ~parse_ibkr_txt_file(raw[last.folder].files[s], s).ok
        /\ compiled[s] = last.prev[s]

\* a run over a headerless file with data lines whose source had records
\* stored at an earlier time, still stored with that time
C11_Witness ==
  /\ ProcessDone
  /\ \E s \in TxtFiles(raw[last.folder]) :
       /\ raw[last.folder].files[s].header = <<>>
       /\ raw[last.folder].files[s].lines /= <<>>
       /\ last.prev[s].exists
       /\ last.prev[s].rows /= <<>>
       /\ compiled[s].rows = last.prev[s].rows
       /\ \A i \in Indices(compiled[s]) :
            compiled[s].rows[i]["TIMESTAMP"] < last.folder

(* C13: when no stored state exists for a source, a process run that parses
   its file treats it as the first run: the run completes, the stored state
   is created with one record per record of the snapshot, in order, and
   every record carries the snapshot's extraction timestamp. *)
C13_FirstRunCreatesState ==
  \A s \in MergedByLast :
    ~last.prev[s].exists =>
      LET snap == parse_ibkr_txt_file(raw[last.folder].files[s], s).df
      IN /\ compiled[s].exists
         /\ Len(compiled[s].rows) = Len(snap.rows)
         /\ \A i \in Indices(compiled[s]) :
              /\ compiled[s].rows[i]["TIMESTAMP"] = Ets(s)
              /\ SameOn(compiled[s].rows[i], snap.rows[i], snap.cols)

\* a first run over a file whose #BOF time is not the folder's time
C13_Witness ==
  \E s \in MergedByLast :
    /\ ~last.prev[s].exists
    /\ compiled[s].exists
    /\ raw[last.folder].files[s].bof /= NoBof
    /\ raw[last.folder].files[s].bof /= last.folder
    /\ \A i \in Indices(compiled[s]) :
         compiled[s].rows[i]["TIMESTAMP"] = raw[last.folder].files[s].bof

\* the snapshot process parsed from the file of stem s in the folder read
SnapshotOf(s) == parse_ibkr_txt_file(raw[last.folder].files[s], s).df

AllStamped(s) ==
  /\ Len(compiled[s].rows) = Len(SnapshotOf(s).rows)
  /\ \A i \in Indices(compiled[s]) : compiled[s].rows[i]["TIMESTAMP"] = Ets(s)

(* C12 as claimed: when the stored previous state lacks the symbol column
   or lacks one of the change columns, the run completes and every record
   of the merged output carries the new snapshot's extraction timestamp. *)
C12_AnyMissingColumnStampsAll ==
  \A s \in MergedByLast :
    (/\ last.prev[s].exists
     /\ \/ SYMBOL_COL \notin last.prev[s].cols
        \/ \E c \in CHANGE_COLS : c \notin last.prev[s].cols)
      => AllStamped(s)

(* C12 amended: when the stored previous state or the new snapshot lacks
   the symbol column, or the two share none of the change columns, the run
   completes and every record of the merged output carries the new
   snapshot's extraction timestamp. *)
C12_NoSharedColumnStampsAll ==
  \A s \in MergedByLast :
    (/\ last.prev[s].exists
     /\ \/ SYMBOL_COL \notin last.prev[s].cols
        \/ SYMBOL_COL \notin SnapshotOf(s).cols
        \/ (CHANGE_COLS \cap last.prev[s].cols) \cap SnapshotOf(s).cols = {})
      => AllStamped(s)

\* a symbol stored at an earlier time without any change column, merged
\* with a snapshot that has all of them, and stamped with the new time
C12_Witness ==
  \E s \in MergedByLast :
    /\ last.prev[s].exists
    /\ SYMBOL_COL \in last.prev[s].cols
    /\ CHANGE_COLS \cap last.prev[s].cols = {}
    /\ CHANGE_COLS \subseteq SnapshotOf(s).cols
    /\ \E i \in Indices(compiled[s]), j \in Indices(last.prev[s]) :
         /\ compiled[s].rows[i]["SYM"] = last.prev[s].rows[j]["SYM"]
         /\ last.prev[s].rows[j]["TIMESTAMP"] < Ets(s)
         /\ compiled[s].rows[i]["TIMESTAMP"] = Ets(s)

ProcessRaised == last.op = "process" /\ last.outcome = "raised"

(* C14: when the save of a source's state fails or is cut short, the state
   stored before the run is left as it was: a stored file that could be
   read before the run is not left cut short by it. *)
C14_FailedSaveKeepsState ==
  ProcessRaised =>
    \A s \in Sources :
      (last.prev[s].exists /\ last.prev[s] /= Truncated) => compiled[s] /= Truncated

(* C15: in a process run, a file that fails to parse (or parses to no
   record) is skipped, its stored state left as it was, and the run
   completes; every other file of the
   folder is parsed, merged with its own stored state and saved, with the
   result it would have had alone. *)
C15_ParseFailureSkipsOneFile ==
  ProcessDone =>
    \A s \in TxtFiles(raw[last.folder]) :
      IF s \in Merged(raw[last.folder])
      THEN compiled[s] =
             IF last.prev[s].exists
             THEN _merge_with_timestamp_tracking(
                    last.prev[s], WithTimestamp(SnapshotOf(s), Ets(s)), Ets(s))
             ELSE WithTimestamp(SnapshotOf(s), Ets(s))
      ELSE compiled[s] = last.prev[s]

\* a run over a folder with one file that does not parse and one that
\* does, the latter merged with its stored state and restamped
C15_Witness ==
  /\ ProcessDone
  /\ \E s, u \in TxtFiles(raw[last.folder]) :
       /\ ~parse_ibkr_txt_file(raw[last.folder].files[s], s).ok
       /\ parse_ibkr_txt_file(raw[last.folder].files[u], u).ok
       /\ last.prev[s].exists /\ compiled[s] = last.prev[s]
       /\ last.prev[u].exists /\ compiled[u] /= last.prev[u]

(* C16: a step that does not find its input (process without a download
   folder or .txt files, resample without processed files, compile without
   a resampled folder or compacted files) ends with an exit status that
   differs from the status of a run of that step that completes. *)
C16_MissingInputSurfaced ==
  last.outcome \in {"no_folder", "no_txt", "no_pkl"} =>
    exit_status(last) /= exit_status([last EXCEPT !.outcome = "complete"])

(* C17: a delete run leaves the latest resampled folder in place with the
   files and the master it held, and replaces every older resampled folder
   by an archive; when a resampled folder existed before the run, one
   exists after it. *)
C17_DeleteKeepsLatestResampled ==
  [][last'.op = "delete" =>
       LET latest == _latest_timestamped_folder(resampled)
       IN latest /= 0 =>
            /\ resampled'[latest].exists
            /\ resampled'[latest] = resampled[latest]
            /\ \A t \in Times :
                 (t < latest /\ resampled[t].exists) =>
                   /\ ~resampled'[t].exists
                   /\ <<"resampled", t>> \in archives']_vars

\* after a delete run: an older resampled folder archived and gone, the
\* latest one in place with a file and its master
C17_Witness ==
  /\ last.op = "delete"
  /\ \E t, u \in Times :
       /\ t < u
       /\ <<"resampled", t>> \in archives
       /\ ~resampled[t].exists
       /\ resampled[u].exists
       /\ resampled[u].master.exists
       /\ PklGzFiles(resampled[u]) /= {}

(* C19: a delete run archives a raw download folder only once it has been
   processed: the folder of a download that completed just before the
   delete run, which no process run has read, is still in place after it. *)
C19_UnprocessedDownloadKept ==
  [][(last.op = "download" /\ last.outcome = "complete" /\ last'.op = "delete")
       => raw'[last.folder].exists]_vars

(* C18: a delete run that falls within a download run does not archive or
   remove the folder the download is writing into: while a download run
   is under way, its folder exists. *)
C18_DeleteSparesOpenDownload ==
  session /= NoSession => raw[session.folder].exists

\* the data lines of the file of stem s whose symbol, the first cell,
\* upper-cased and trimmed, is not empty
LinesWithSymbol(s) ==
  SelectSeq(raw[last.folder].files[s].lines,
            LAMBDA line : Strip(Upper(Strip(line[1]))) /= "")

(* C20: the parser gives one record per data line whose trimmed symbol is
   not empty, in order, carrying the line's symbol upper-cased and trimmed;
   a placeholder or a non-numeric cell becomes a null of the record and
   neither removes the row nor changes its symbol. *)
C20_OneRecordPerSymbolLine ==
  \A s \in MergedByLast :
    raw[last.folder].files[s].header = FullHeader =>
      /\ Len(compiled[s].rows) = Len(LinesWithSymbol(s))
      /\ \A i \in Indices(compiled[s]) :
           compiled[s].rows[i]["SYM"] = Strip(Upper(Strip(LinesWithSymbol(s)[i][1])))

\* the stems whose file in the folder read has a header and no data line
HeaderOnly == {s \in TxtFiles(raw[last.folder]) :
                 /\ raw[last.folder].files[s].header /= <<>>
                 /\ raw[last.folder].files[s].lines = <<>>}

(* C21: a file with a header and no data rows parses to a snapshot of zero
   records, and after the process run the stored state of its source is
   empty. *)
C21_HeaderOnlyEmptiesState ==
  ProcessDone =>
    \A s \in HeaderOnly : compiled[s].exists /\ compiled[s].rows = <<>>

\* the calls made for a date with a non-empty list, in call order
NonEmptyCalls(date) ==
  SelectSeq(earnings_csv.calls[date], LAMBDA c : c.earnings_list /= <<>>)

RECURSIVE RowsOfCalls(_)
RowsOfCalls(calls) ==
  IF calls = <<>> THEN <<>>
  ELSE EarningsRows(Head(calls).earnings_list, Head(calls).scraped_at)
       \o RowsOfCalls(Tail(calls))

(* C22: for every date, the CSV file is absent while no call with a non-empty
   list was made for it, and otherwise holds the header row once, as its
   first row, followed by the rows of every call with a non-empty list in
   call order; calls with an empty list leave no trace. *)
C22_OneHeaderThenRowsInCallOrder ==
  \A d \in Dates :
    IF NonEmptyCalls(d) = <<>>
    THEN earnings_csv.files[d] = NoCsv
    ELSE /\ earnings_csv.files[d].exists
         /\ earnings_csv.files[d].rows =
              <<CSV_HEADER>> \o RowsOfCalls(NonEmptyCalls(d))

\* a date with two non-empty calls and an empty call between them
C22_Witness ==
  /\ \E d \in Dates :
       /\ Len(earnings_csv.calls[d]) = 3
       /\ earnings_csv.calls[d][1].earnings_list /= <<>>
       /\ earnings_csv.calls[d][2].earnings_list = <<>>
       /\ earnings_csv.calls[d][3].earnings_list /= <<>>
       /\ Len(earnings_csv.files[d].rows) > 2

\* a step of MLPipeline.run given a list of sources
RunOverList ==
  /\ run_result'.run /= run_result.run
  /\ run_result'.sources.given

(* C23: a run given a list of sources leaves the Parquet file of every
   source outside the list as it was, returns converted and uploaded maps
   over sources of the list only, and uploads only what it converted. *)
C23_RunConvertsOnlyListed ==
  [][RunOverList =>
       /\ \A k \in MLSources \ run_result'.sources.list :
            parquet_dir'[k] = parquet_dir[k]
       /\ run_result'.converted \subseteq run_result'.sources.list
       /\ run_result'.uploaded \subseteq run_result'.converted]_vars

\* the runs that save a stored state in this step
Writing == {r \in Runs : processing[r].pc = "merged" /\ processing'[r].pc /= "merged"}

(* C24: a run that saves the state of a source overwrites the state it read:
   no other run has saved a different state of that source between the
   run's read and its write. *)
C24_WriteOverwritesWhatWasRead ==
  [][\A r \in Writing : compiled[processing[r].stem] = processing[r].prev]_vars

\* the resampled folders whose master this step writes
MasterWritten == {t \in Times : resampled'[t].master /= resampled[t].master}

(* C25: a step that writes a master reads a folder no resample run is still
   writing: the run that created the folder has saved every one of its
   per-source files. *)
C25_CompileReadsFinishedFolder ==
  [][\A t \in MasterWritten :
       ~(resampling.folder = t /\ resampling.pending /= {})]_vars

\* the snapshot read for stem s holds the records of the previous state, in
\* order, TIMESTAMP aside
SnapshotIsPrev(s) ==
  /\ Len(SnapshotOf(s).rows) = Len(last.prev[s].rows)
  /\ \A i \in Indices(last.prev[s]) :
       SameOn(SnapshotOf(s).rows[i], last.prev[s].rows[i], SnapshotOf(s).cols)

(* C26: with several records of one symbol in the previous state or in the
   snapshot, each record of the merged output is stamped by comparison with
   the last record of its symbol in the previous state, and a snapshot that
   holds the records of the previous state leaves every TIMESTAMP as it
   was. *)
C26_DuplicatesComparedWithLast ==
  \A s \in MergedByLast :
    (last.prev[s].exists /\ last.prev[s].cols = SnapshotOf(s).cols \cup {"TIMESTAMP"}) =>
      /\ \A i \in Indices(compiled[s]) :
           LET n == compiled[s].rows[i]
               hits == Occurrences(last.prev[s], n["SYM"])
           IN hits /= {} =>
                LET p == last.prev[s].rows[MaxOf(hits)]
                IN IF SameChangeCols(n, p)
                   THEN n["TIMESTAMP"] = p["TIMESTAMP"]
                   ELSE n["TIMESTAMP"] = Ets(s)
      /\ SnapshotIsPrev(s) => compiled[s].rows = last.prev[s].rows

\* a complete process run follows a complete process run on the same folder
ProcessRepeated ==
  /\ ProcessDone
  /\ last'.op = "process" /\ last'.outcome = "complete"
  /\ last'.folder = last.folder
  /\ raw' = raw

(* C27: a process run that follows a process run on the same download
   folder, with no download in between, leaves the stored state of every
   source as the first run left it, records and TIMESTAMPs. *)
C27_ProcessIdempotent ==
  [][ProcessRepeated => compiled' = compiled]_vars

\* the extraction timestamps of the snapshots of stem s merged so far
MergedTimes(s) == {history[s][k].ts : k \in 1..Len(history[s])}

\* the extraction timestamps of the merged snapshots of s never decreased
NonDecreasing(s) ==
  \A k \in 1..(Len(history[s]) - 1) : history[s][k].ts <= history[s][k + 1].ts

(* C28: every TIMESTAMP stored for a source is the extraction timestamp of
   a snapshot of that source that a process run merged, and when those
   extraction timestamps never decreased from run to run, none is later
   than that of the snapshot merged last. *)
C28_TimestampsAreExtractionTimes ==
  \A s \in Sources :
    \A i \in Indices(compiled[s]) :
      /\ compiled[s].rows[i]["TIMESTAMP"] \in MergedTimes(s)
      /\ NonDecreasing(s) =>
           compiled[s].rows[i]["TIMESTAMP"] <= history[s][Len(history[s])].ts

\* three snapshots merged, the last later than the first; one stored record
\* carries the first snapshot's time, another the last's
C28_Witness ==
  \E s \in Sources :
    /\ Len(history[s]) = 3
    /\ NonDecreasing(s)
    /\ history[s][1].ts < history[s][3].ts
    /\ \E i, j \in Indices(compiled[s]) :
         /\ compiled[s].rows[i]["TIMESTAMP"] = history[s][1].ts
         /\ compiled[s].rows[j]["TIMESTAMP"] = history[s][3].ts

\* the resampled folders that hold a master.pkl.gz
Masters == {t \in Times : resampled[t].master.exists}

(* C29: a delete step that finds a master in a resampled folder leaves a
   master in a resampled folder. *)
C29_DeleteKeepsAMaster ==
  [][(last'.op = "delete" /\ Masters /= {}) =>
       \E t \in Times : resampled'[t].master.exists]_vars

\* the download folders that hold a downloaded .txt file
FoldersWithTxt == {t \in _timestamped_folders(raw) : TxtFiles(raw[t]) /= {}}

(* C30: a process run reads the most recent download folder that holds
   downloaded .txt files, whatever folders failed or empty downloads have
   left after it. *)
C30_ProcessReadsLatestWithFiles ==
  (last.op = "process" /\ FoldersWithTxt /= {}) =>
    /\ last.outcome = "complete"
    /\ last.folder = MaxOf(FoldersWithTxt)

====
